---- MODULE Spec2Model ----
(***************************************************************************)
(* CNPJvalidate: the predicate evaluator of filter_toolkit.py and the run   *)
(* of main.py that applies it to the rows of a CSV file.                   *)
(*                                                                         *)
(* A Python str is a sequence of one-character strings (<<"M","G">> is     *)
(* "MG"); a field name and an operator name are only ever compared, and    *)
(* stay TLA+ strings.  A predicate node is a record, as the source's dict; *)
(* a missing key is a field absent from the record's DOMAIN.  The outcome  *)
(* of a call is "True", "False" or the name of the exception it raises.    *)
(* Python lists are 0-based, sequences here 1-based: an index is the       *)
(* source's plus one.                                                      *)
(***************************************************************************)
EXTENDS Integers, Sequences, FiniteSets

VARIABLES
    columns,     \* filter_row's columns argument: the list of field names
    row,         \* filter_row's row argument: the list of cells
    filter_obj,  \* filter_row's filter_obj argument: the predicate tree
    result,      \* the outcome of the call, None before it
    infile,      \* process_csv: the rows csv.reader yields, the header first
    reader,      \* process_csv: how many rows of infile the reader has yielded
    outfile,     \* process_csv: the rows given to writer.writerow, in order
    matches,     \* process_csv: the matches counter
    pc,          \* process_csv: where the run is
    frames,      \* per worker: the stack of evaluate_condition frames of its call
    args,        \* per worker: which row of infile its call evaluates, 0 outside a call
    returned     \* per row of infile: what filter_row returned on it, None before

csv_vars == <<infile, reader, outfile, matches, pc>>

worker_vars == <<frames, args, returned>>

vars == <<columns, row, filter_obj, result, csv_vars, worker_vars>>

None == "None"

PyBool(b) == IF b THEN "True" ELSE "False"

Errors == {"ValueError", "IndexError", "AttributeError", "TypeError", "re.error"}

(***************************************************************************)
(* str methods                                                             *)
(***************************************************************************)
UPPER == <<"A","B","C","D","E","F","G","H","I","J","K","L","M",
           "N","O","P","Q","R","S","T","U","V","W","X","Y","Z">>
LOWER == <<"a","b","c","d","e","f","g","h","i","j","k","l","m",
           "n","o","p","q","r","s","t","u","v","w","x","y","z">>

\* the ASCII digits; str.lower() below is its restriction to ASCII letters
Digits == {"0","1","2","3","4","5","6","7","8","9"}

\* the ASCII whitespace str.strip() removes
Whitespace == {" ", "\t", "\n", "\r", "\f"}

LowerChar(c) ==
    IF \E i \in DOMAIN UPPER : UPPER[i] = c
    THEN LOWER[CHOOSE i \in DOMAIN UPPER : UPPER[i] = c]
    ELSE c

\* str.lower()
lower(s) == [i \in 1..Len(s) |-> LowerChar(s[i])]

\* sub in s
contains_str(sub, s) ==
    \E k \in 0..(Len(s) - Len(sub)) : SubSeq(s, k + 1, k + Len(sub)) = sub

\* str.strip()
RECURSIVE lstrip(_)
lstrip(s) ==
    IF s # <<>> /\ Head(s) \in Whitespace THEN lstrip(Tail(s)) ELSE s

RECURSIVE rstrip(_)
rstrip(s) ==
    IF s # <<>> /\ s[Len(s)] \in Whitespace
    THEN rstrip(SubSeq(s, 1, Len(s) - 1))
    ELSE s

strip(s) == rstrip(lstrip(s))

\* str.split(','): the pieces between the commas, at least one piece
RECURSIVE split(_)
split(s) ==
    IF \E i \in 1..Len(s) : s[i] = ","
    THEN LET i == CHOOSE j \in 1..Len(s) :
                      s[j] = "," /\ \A k \in 1..(j - 1) : s[k] # ","
         IN  <<SubSeq(s, 1, i - 1)>> \o split(SubSeq(s, i + 1, Len(s)))
    ELSE <<s>>

\* [v.strip() for v in row[idx].split(',')]
field_values_of(cell) ==
    LET parts == split(cell) IN [i \in 1..Len(parts) |-> strip(parts[i])]

(***************************************************************************)
(* re.search(pattern, string, re.IGNORECASE), for patterns made of         *)
(* letters, digits, punctuation and backslash escapes: a letter or a       *)
(* punctuation mark stands for itself, \d is a digit, \D a non-digit, an   *)
(* escaped punctuation mark is itself, \1..\9 refers to a group the        *)
(* pattern does not have and a backslash ending the pattern escapes        *)
(* nothing; the last two are re.error.                                     *)
(***************************************************************************)
RECURSIVE sre_parse(_)
sre_parse(p) ==
    IF p = <<>> THEN [ok |-> TRUE, items |-> <<>>]
    ELSE IF Head(p) # "\\"
    THEN LET rest == sre_parse(Tail(p))
         IN  [ok |-> rest.ok,
              items |-> <<[kind |-> "literal", ch |-> Head(p)]>> \o rest.items]
    ELSE IF Len(p) = 1 \/ p[2] \in Digits
    THEN [ok |-> FALSE, items |-> <<>>]
    ELSE LET rest == sre_parse(SubSeq(p, 3, Len(p)))
             item == CASE p[2] = "d" -> [kind |-> "digit", ch |-> p[2]]
                       [] p[2] = "D" -> [kind |-> "not_digit", ch |-> p[2]]
                       [] OTHER -> [kind |-> "literal", ch |-> p[2]]
         IN  [ok |-> rest.ok, items |-> <<item>> \o rest.items]

item_matches(item, c) ==
    CASE item.kind = "digit" -> c \in Digits
      [] item.kind = "not_digit" -> c \notin Digits
      [] OTHER -> LowerChar(c) = LowerChar(item.ch)

re_search(pattern, string) ==
    LET p == sre_parse(pattern)
        n == Len(p.items)
    IN  IF ~p.ok THEN "re.error"
        ELSE PyBool(\E k \in 0..(Len(string) - n) :
                        \A j \in 1..n : item_matches(p.items[j], string[k + j]))

(***************************************************************************)
(* dict.get and list.index                                                 *)
(***************************************************************************)
Get(d, key, default) == IF key \in DOMAIN d THEN d[key] ELSE default

Has(seq, x) == \E i \in DOMAIN seq : seq[i] = x

\* a lookup that counts the places from the end of the list
index_from_end(seq, x) ==
    Len(seq) + 1 - (CHOOSE i \in DOMAIN seq : seq[i] = x)

\* columns.index(field), defined when Has(columns, field): the first place
index(seq, x) ==
    CHOOSE i \in DOMAIN seq : seq[i] = x /\ \A j \in 1..(i - 1) : seq[j] # x

(***************************************************************************)
(* The constructors                                                        *)
(***************************************************************************)
AND(conditions) == [op |-> "AND", conditions |-> conditions]
OR(conditions) == [op |-> "OR", conditions |-> conditions]
NOT(condition) == [op |-> "NOT", condition |-> condition]
FieldCondition(field, op, value) == [field |-> field, op |-> op, value |-> value]
eq(field, value) == FieldCondition(field, "eq", value)
ne(field, value) == FieldCondition(field, "ne", value)
contains(field, value) == FieldCondition(field, "contains", value)
startswith(field, value) == FieldCondition(field, "startswith", value)
endswith(field, value) == FieldCondition(field, "endswith", value)
regex(field, value) == FieldCondition(field, "regex", value)
gt(field, value) == FieldCondition(field, "gt", value)
lt(field, value) == FieldCondition(field, "lt", value)
ge(field, value) == FieldCondition(field, "ge", value)
le(field, value) == FieldCondition(field, "le", value)
date_eq(field, value) == FieldCondition(field, "date_eq", value)
date_ne(field, value) == FieldCondition(field, "date_ne", value)
date_gt(field, value) == FieldCondition(field, "date_gt", value)
date_lt(field, value) == FieldCondition(field, "date_lt", value)
date_ge(field, value) == FieldCondition(field, "date_ge", value)
date_le(field, value) == FieldCondition(field, "date_le", value)
bool_eq(field, value) == FieldCondition(field, "bool_eq", value)
bool_ne(field, value) == FieldCondition(field, "bool_ne", value)

(***************************************************************************)
(* filter_row.evaluate_condition, one operator per branch                  *)
(***************************************************************************)
MULTI_VALUE_FIELD == "CNAE_FISCAL_SECUNDARIA"

\* Python's not, applied to the outcome of the operand: an exception raised
\* by the operand propagates
\* the NOT branch without its not
py_not_identity(r) == r

py_not(r) ==
    CASE r = "True" -> "False"
      [] r = "False" -> "True"
      [] OTHER -> r

op_contains(r, cols, condition) ==
    LET field == Get(condition, "field", None)
        value == Get(condition, "value", None)
    IN  IF ~Has(cols, field) THEN "ValueError"
        ELSE LET idx == index(cols, field)
             IN  IF field = MULTI_VALUE_FIELD
                 THEN IF idx > Len(r) THEN "IndexError"
                      ELSE IF "value" \notin DOMAIN condition THEN "AttributeError"
                      ELSE LET field_values == field_values_of(r[idx])
                           IN  PyBool(\E i \in DOMAIN field_values :
                                   contains_str(lower(value), lower(field_values[i])))
                 ELSE IF "value" \notin DOMAIN condition THEN "AttributeError"
                      ELSE IF idx > Len(r) THEN "IndexError"
                      ELSE PyBool(contains_str(lower(value), lower(r[idx])))

\* the eq branch comparing the cell as it is: row[idx] == value.lower()
op_eq_case_sensitive(r, cols, condition) ==
    LET field == Get(condition, "field", None)
        value == Get(condition, "value", None)
    IN  IF ~Has(cols, field) THEN "ValueError"
        ELSE LET idx == index(cols, field)
             IN  IF idx > Len(r) THEN "IndexError"
                 ELSE IF "value" \notin DOMAIN condition THEN "AttributeError"
                 ELSE IF field = MULTI_VALUE_FIELD
                 THEN LET field_values == field_values_of(r[idx])
                      IN  PyBool(\E i \in DOMAIN field_values :
                                     lower(value) = lower(field_values[i]))
                 ELSE PyBool(r[idx] = lower(value))

op_eq(r, cols, condition) ==
    LET field == Get(condition, "field", None)
        value == Get(condition, "value", None)
    IN  IF ~Has(cols, field) THEN "ValueError"
        ELSE LET idx == index(cols, field)
             IN  IF idx > Len(r) THEN "IndexError"
                 ELSE IF "value" \notin DOMAIN condition THEN "AttributeError"
                 ELSE IF field = MULTI_VALUE_FIELD
                 THEN LET field_values == field_values_of(r[idx])
                      IN  PyBool(\E i \in DOMAIN field_values :
                                     lower(value) = lower(field_values[i]))
                 ELSE PyBool(lower(r[idx]) = lower(value))

\* the ne branch with any() for all(): some value differs
op_ne_any_differs(r, cols, condition) ==
    LET field == Get(condition, "field", None)
        value == Get(condition, "value", None)
    IN  IF ~Has(cols, field) THEN "ValueError"
        ELSE LET idx == index(cols, field)
             IN  IF idx > Len(r) THEN "IndexError"
                 ELSE IF "value" \notin DOMAIN condition THEN "AttributeError"
                 ELSE IF field = MULTI_VALUE_FIELD
                 THEN LET field_values == field_values_of(r[idx])
                      IN  PyBool(\E i \in DOMAIN field_values :
                                     lower(value) # lower(field_values[i]))
                 ELSE PyBool(lower(r[idx]) # lower(value))

op_ne(r, cols, condition) ==
    LET field == Get(condition, "field", None)
        value == Get(condition, "value", None)
    IN  IF ~Has(cols, field) THEN "ValueError"
        ELSE LET idx == index(cols, field)
             IN  IF idx > Len(r) THEN "IndexError"
                 ELSE IF "value" \notin DOMAIN condition THEN "AttributeError"
                 ELSE IF field = MULTI_VALUE_FIELD
                 THEN LET field_values == field_values_of(r[idx])
                      IN  PyBool(\A i \in DOMAIN field_values :
                                     lower(value) # lower(field_values[i]))
                 ELSE PyBool(lower(r[idx]) # lower(value))

\* any(bool(re.search(pattern, v, re.IGNORECASE)) for v in field_values):
\* the pattern is compiled by the first search, field_values is never empty
op_regex(r, cols, condition) ==
    LET field == Get(condition, "field", None)
        pattern == Get(condition, "value", None)
    IN  IF ~Has(cols, field) THEN "ValueError"
        ELSE LET idx == index(cols, field)
             IN  IF idx > Len(r) THEN "IndexError"
                 ELSE IF "value" \notin DOMAIN condition THEN "TypeError"
                 ELSE IF field = MULTI_VALUE_FIELD
                 THEN LET field_values == field_values_of(r[idx])
                      IN  IF ~sre_parse(pattern).ok THEN "re.error"
                          ELSE PyBool(\E i \in DOMAIN field_values :
                                   re_search(pattern, field_values[i]) = "True")
                 ELSE re_search(pattern, r[idx])

\* an unnamed operator raising instead
unhandled_raises(condition) == "ValueError"

\* the final return False: every operator no branch names
unhandled(condition) == "False"

RECURSIVE evaluate_condition(_, _, _)

\* all([...]): every child is evaluated before any is looked at
all_of_eager(r, cols, conditions) ==
    LET outs == [i \in DOMAIN conditions |-> evaluate_condition(r, cols, conditions[i])]
    IN  IF \E i \in DOMAIN outs : outs[i] \in Errors
        THEN outs[CHOOSE i \in DOMAIN outs :
                     outs[i] \in Errors /\ \A j \in 1..(i - 1) : outs[j] \notin Errors]
        ELSE PyBool(\A i \in DOMAIN outs : outs[i] = "True")

\* bool(conditions) and all(...): no vacuous truth
all_of_nonempty(r, cols, conditions) ==
    IF conditions = <<>> THEN "False"
    ELSE IF \A i \in DOMAIN conditions :
                evaluate_condition(r, cols, conditions[i]) = "True"
         THEN "True"
         ELSE "False"

\* all(evaluate_condition(c) for c in conditions): left to right, stops at
\* the first child that is not true
RECURSIVE all_of(_, _, _)
all_of(r, cols, conditions) ==
    IF conditions = <<>> THEN "True"
    ELSE LET first == evaluate_condition(r, cols, Head(conditions))
         IN  IF first = "True" THEN all_of(r, cols, Tail(conditions)) ELSE first

\* any([...]): every child is evaluated before any is looked at
any_of_eager(r, cols, conditions) ==
    LET outs == [i \in DOMAIN conditions |-> evaluate_condition(r, cols, conditions[i])]
    IN  IF \E i \in DOMAIN outs : outs[i] \in Errors
        THEN outs[CHOOSE i \in DOMAIN outs :
                     outs[i] \in Errors /\ \A j \in 1..(i - 1) : outs[j] \notin Errors]
        ELSE PyBool(\E i \in DOMAIN outs : outs[i] = "True")

\* any(evaluate_condition(c) for c in conditions): left to right, stops at
\* the first child that is not false
RECURSIVE any_of(_, _, _)
any_of(r, cols, conditions) ==
    IF conditions = <<>> THEN "False"
    ELSE LET first == evaluate_condition(r, cols, Head(conditions))
         IN  IF first = "False" THEN any_of(r, cols, Tail(conditions)) ELSE first

\* an evaluation that does not test for a missing operator
evaluate_condition_without_default(r, cols, condition) ==
    LET op == Get(condition, "op", None)
    IN  CASE op = "AND" -> all_of(r, cols, Get(condition, "conditions", <<>>))
          [] op = "OR" -> any_of(r, cols, Get(condition, "conditions", <<>>))
          [] op = "NOT" -> py_not(evaluate_condition(r, cols, Get(condition, "condition", <<>>)))
          [] op = "contains" -> op_contains(r, cols, condition)
          [] op = "eq" -> op_eq(r, cols, condition)
          [] op = "ne" -> op_ne(r, cols, condition)
          [] op = "regex" -> op_regex(r, cols, condition)
          [] OTHER -> unhandled(condition)

evaluate_condition(r, cols, condition) ==
    LET op == Get(condition, "op", None)
    IN  IF op = None \/ op = "" THEN "True"
        ELSE CASE op = "AND" -> all_of(r, cols, Get(condition, "conditions", <<>>))
               [] op = "OR" -> any_of(r, cols, Get(condition, "conditions", <<>>))
               [] op = "NOT" ->
                    py_not(evaluate_condition(r, cols, Get(condition, "condition", <<>>)))
               [] op = "contains" -> op_contains(r, cols, condition)
               [] op = "eq" -> op_eq(r, cols, condition)
               [] op = "ne" -> op_ne(r, cols, condition)
               [] op = "regex" -> op_regex(r, cols, condition)
               [] OTHER -> unhandled(condition)

filter_row(r, cols, f) == evaluate_condition(r, cols, f)

(***************************************************************************)
(* The calls: the inputs filter_row is applied to                          *)
(***************************************************************************)
MaxCellLen == 3
MaxValLen == 2
MaxChildren == 2

\* the columns of config.py that the conditions below address, in its order
CONFIG_COLUMNS ==
    <<"SITUACAO_CADASTRAL", "CNAE_FISCAL_SECUNDARIA", "CEP", "UF", "CORREIO_ELETRONICO">>

\* the same fields in the order of another file
OTHER_COLUMNS ==
    <<"UF", "CORREIO_ELETRONICO", "CNAE_FISCAL_SECUNDARIA", "CEP", "SITUACAO_CADASTRAL">>

Strings(chars, n) == UNION {[1..k -> chars] : k \in 0..n}

SeqsUpTo(S, n) == UNION {[1..k -> S] : k \in 0..n}

\* the row of a file with columns cols whose cells are cells[field]
RowOf(cols, cells) == [i \in 1..Len(cols) |-> cells[cols[i]]]

Cells(cnae, cep, uf, email) ==
    [f \in {"SITUACAO_CADASTRAL", "CNAE_FISCAL_SECUNDARIA", "CEP", "UF",
            "CORREIO_ELETRONICO"} |->
        CASE f = "SITUACAO_CADASTRAL" -> <<"0","2">>
          [] f = "CNAE_FISCAL_SECUNDARIA" -> cnae
          [] f = "CEP" -> cep
          [] f = "UF" -> uf
          [] OTHER -> email]

\* --- predicate trees over a few leaves, on rows that make each leaf true,
\* false or raise
Leaves ==
    { eq("UF", <<"M","G">>),
      contains("CORREIO_ELETRONICO", <<"@","g">>),
      eq("RAZAO_SOCIAL", <<"x">>),
      gt("CEP", 1),
      [op |-> "equals", column |-> "UF", value |-> <<"M","G">>] }

\* the module's own example filter, whose operator names no branch knows
filter_example ==
    [op |-> "and",
     conditions |-> <<[op |-> "equals", column |-> "CNAE_FISCAL_PRINCIPAL",
                       value |-> <<"6","2","0","1","5","0","0">>],
                      [op |-> "regex", column |-> "CNPJ_BASICO",
                       pattern |-> <<"^","[","0","-","9","]","{","8","}","$">>]>>]

Mid == Leaves \cup {NOT(l) : l \in Leaves} \cup {AND(<<>>), OR(<<>>)}

Level1 ==
    Leaves \cup {NOT(l) : l \in Leaves}
           \cup {AND(cs) : cs \in SeqsUpTo(Leaves, MaxChildren)}
           \cup {OR(cs) : cs \in SeqsUpTo(Leaves, MaxChildren)}

Trees ==
    Level1 \cup {NOT(p) : p \in Level1}
           \cup {AND(cs) : cs \in SeqsUpTo(Mid, MaxChildren)}
           \cup {OR(cs) : cs \in SeqsUpTo(Mid, MaxChildren)}
           \cup {NOT(AND(<<a, b>>)) : a, b \in Mid}
           \cup {filter_example}

TreeRows(cols) ==
    LET full == {RowOf(cols, Cells(<<>>, <<"7">>, uf, email)) :
                    uf \in {<<"M","G">>, <<"S","P">>},
                    email \in {<<"a","@","g">>, <<"a","@","b">>}}
    IN  full \cup {SubSeq(r, 1, 1) : r \in full}

\* the call's arguments
Call(cols, r, f) == columns = cols /\ row = r /\ filter_obj = f

TreeCalls ==
    \E cols \in {CONFIG_COLUMNS, OTHER_COLUMNS} :
        \E r \in TreeRows(cols), f \in Trees : Call(cols, r, f)

\* --- one string condition on the single-value field UF
TextChars == {"a", "A", "b"}

TextOps == {"eq", "ne", "contains", "startswith", "endswith"}

TextCalls ==
    \/ \E op \in TextOps,
          cell \in Strings(TextChars, MaxCellLen),
          value \in Strings(TextChars, MaxValLen) :
           Call(CONFIG_COLUMNS, RowOf(CONFIG_COLUMNS, Cells(<<>>, <<>>, cell, <<>>)),
                FieldCondition("UF", op, value))
    \/ \E op \in TextOps,
          cell \in {<<"a","t","i","v","a">>, <<"A","T","I","V","A">>, <<"b","a","i","x","a","d","a">>} :
           Call(CONFIG_COLUMNS,
                [RowOf(CONFIG_COLUMNS, Cells(<<>>, <<>>, <<"M","G">>, <<>>)) EXCEPT ![1] = cell],
                FieldCondition("SITUACAO_CADASTRAL", op, <<"A","T","I","V","A">>))

\* --- one string condition on the multi-value field
MultiCells ==
    Strings({"a", "A", ",", " "}, MaxCellLen)
        \cup {<<"A", ",", " ", "B", ",", " ", "C">>}

MultiValues == Strings({"a", "A", " "}, MaxValLen) \cup {<<"B">>, <<"b">>, <<"D">>}

MultiCalls ==
    \E op \in {"eq", "ne", "contains"}, cell \in MultiCells, value \in MultiValues :
        Call(CONFIG_COLUMNS, RowOf(CONFIG_COLUMNS, Cells(cell, <<>>, <<>>, <<>>)),
             FieldCondition(MULTI_VALUE_FIELD, op, value))

\* --- one regex condition
RegexCalls ==
    \E pattern \in Strings({"d", "D", "7", "\\"}, MaxValLen) :
        \/ \E cell \in Strings({"d", "D", "7"}, MaxCellLen) :
              Call(CONFIG_COLUMNS, RowOf(CONFIG_COLUMNS, Cells(<<>>, <<>>, cell, <<>>)),
                   regex("UF", pattern))
        \/ \E cell \in {<<"7", ",", " ", "d">>, <<"D", ",", "d">>, <<"7", "7">>, <<>>} :
              Call(CONFIG_COLUMNS, RowOf(CONFIG_COLUMNS, Cells(cell, <<>>, <<>>, <<>>)),
                   regex(MULTI_VALUE_FIELD, pattern))

\* --- one numeric, date or boolean condition on CEP
TypedCells ==
    Strings({"1", "7", "x"}, MaxCellLen)
        \cup {<<"2","0","1","7","0","2","0","3">>, <<"2","0","1","7","0","1","1","8">>,
              <<"t","r","u","e">>, <<"0">>}

NumericOps == {"gt", "lt", "ge", "le"}
DateOps == {"date_eq", "date_ne", "date_gt", "date_lt", "date_ge", "date_le"}
BoolOps == {"bool_eq", "bool_ne"}

TypedConditions ==
    {FieldCondition("CEP", op, v) : op \in NumericOps, v \in {0, 1, 7, 17, 71}}
    \cup {FieldCondition("CEP", op, <<"2","0","1","7","0","2","0","3">>) : op \in DateOps}
    \cup {FieldCondition("CEP", op, b) : op \in BoolOps, b \in BOOLEAN}

TypedCalls ==
    \E cell \in TypedCells, f \in TypedConditions :
        Call(CONFIG_COLUMNS, RowOf(CONFIG_COLUMNS, Cells(<<>>, cell, <<>>, <<>>)), f)

\* --- one condition of each operator on a field the columns do not have
FieldOps == TextOps \cup {"regex"} \cup NumericOps \cup DateOps \cup BoolOps

AbsentFieldCalls ==
    \E op \in FieldOps, uf \in {<<"M","G">>, <<>>} :
        Call(CONFIG_COLUMNS, RowOf(CONFIG_COLUMNS, Cells(<<>>, <<"7">>, uf, <<>>)),
             FieldCondition("RAZAO_SOCIAL", op, <<"7">>))

\* --- nodes without the key their evaluation reads: no operator, a NOT
\* without its child, an AND or OR without its children
Incomplete ==
    { <<>>, [op |-> ""], [op |-> None],
      [field |-> "RAZAO_SOCIAL", value |-> <<"x">>],
      [field |-> "UF", value |-> <<"M","G">>],
      [op |-> "NOT"], [op |-> "AND"], [op |-> "OR"] }

IncompleteTrees ==
    LET under == Incomplete \cup {eq("UF", <<"M","G">>), eq("RAZAO_SOCIAL", <<"x">>)}
    IN  Incomplete
            \cup {NOT(c) : c \in Incomplete}
            \cup {AND(<<a, b>>) : a \in Incomplete, b \in under}
            \cup {OR(<<a, b>>) : a \in Incomplete, b \in under}

IncompleteCalls ==
    \E cols \in {CONFIG_COLUMNS, <<>>} :
        \E r \in TreeRows(CONFIG_COLUMNS) \cup {<<>>}, f \in IncompleteTrees :
            Call(cols, r, f)

Calls ==
    \/ AbsentFieldCalls
    \/ IncompleteCalls
    \/ TypedCalls
    \/ TextCalls
    \/ MultiCalls
    \/ RegexCalls
    \/ TreeCalls

(***************************************************************************)
(* The state machine: one call of filter_row per behaviour                 *)
(***************************************************************************)
\* process_csv is not running
NoRun ==
    /\ infile = <<>>
    /\ reader = 0
    /\ outfile = <<>>
    /\ matches = 0
    /\ pc = "none"

Workers == {1, 2}

\* no worker is evaluating
NoWorkers ==
    /\ frames = [w \in Workers |-> <<>>]
    /\ args = [w \in Workers |-> 0]
    /\ returned = <<>>

Init ==
    /\ Calls
    /\ result = None
    /\ NoRun
    /\ NoWorkers

\* result = filter_row(row, columns, filter_obj)
FilterRow ==
    /\ result = None
    /\ result' = filter_row(row, columns, filter_obj)
    /\ UNCHANGED <<columns, row, filter_obj, csv_vars, worker_vars>>

Next == FilterRow

Spec == Init /\ [][Next]_vars

(***************************************************************************)
(* process_csv: one run of main.py over a file.  The file is the list of   *)
(* rows csv.reader yields and the output the list of rows given to         *)
(* writer.writerow; the encoding detection and the progress bar, which     *)
(* come before the files are opened or do not touch them, are left out.    *)
(* The counter matches is 0 from the start.                                *)
(***************************************************************************)
MaxRows == 3

\* the first line of the input, which the run skips and never reads
InputHeader == <<<<"U","F">>, <<"C","E","P">>>>

\* the data rows of a file laid out as config.columns: whole rows, a row cut
\* short, and the empty row of a blank line
DataRows == TreeRows(CONFIG_COLUMNS) \cup {<<>>}

\* an empty file, and a header followed by data rows
Files ==
    {<<>>} \cup {<<InputHeader>> \o rows : rows \in SeqsUpTo(DataRows, MaxRows)}

\* config.filter_obj: sound filters, and filters with an absent field, an
\* operator evaluate_condition does not know, a node without its keys
Configs ==
    { eq("UF", <<"M","G">>),
      NOT(eq("UF", <<"M","G">>)),
      AND(<<eq("SITUACAO_CADASTRAL", <<"0","2">>),
            contains("CORREIO_ELETRONICO", <<"@","g">>)>>),
      OR(<<eq("UF", <<"M","G">>), eq("RAZAO_SOCIAL", <<"x">>)>>),
      AND(<<eq("UF", <<"M","G">>), eq("RAZAO_SOCIAL", <<"x">>)>>),
      eq("RAZAO_SOCIAL", <<"x">>),
      filter_example,
      [op |-> "NOT"],
      <<>> }

InitCsv ==
    /\ columns = CONFIG_COLUMNS
    /\ filter_obj \in Configs
    /\ infile \in Files
    /\ row = <<>>
    /\ result = None
    /\ reader = 0
    /\ outfile = <<>>
    /\ matches = 0
    /\ pc = "open"
    /\ NoWorkers

\* an exception leaves process_csv: the files are closed, __main__ prints it
Abort == pc' = "error"

\* a writer that puts the new row before the ones written
writerow_on_top(out, r) == <<r>> \o out

\* writer.writerow(r) on the output out
writerow(out, r) == Append(out, r)

\* open(output_file, 'w'); writer.writerow(columns)
WriteHeader ==
    /\ pc = "open"
    /\ outfile' = writerow(<<>>, columns)
    /\ pc' = "skip"
    /\ UNCHANGED <<columns, row, filter_obj, result, infile, reader, matches, worker_vars>>

\* next(reader): StopIteration on a file without a line; matches = 0
SkipHeader ==
    /\ pc = "skip"
    /\ IF infile = <<>>
       THEN Abort /\ UNCHANGED <<reader, matches>>
       ELSE reader' = 1 /\ matches' = 0 /\ pc' = "loop"
    /\ UNCHANGED <<columns, row, filter_obj, result, infile, outfile, worker_vars>>

\* one turn of `for row in reader`: the row is written and counted when
\* filter_row returns True; an exception of filter_row ends the run
ProcessRow ==
    /\ pc = "loop"
    /\ reader < Len(infile)
    /\ reader' = reader + 1
    /\ row' = infile[reader + 1]
    /\ result' = filter_row(row', columns, filter_obj)
    /\ CASE result' = "True" ->
                outfile' = writerow(outfile, row') /\ matches' = matches + 1 /\ pc' = pc
         [] result' = "False" -> UNCHANGED <<outfile, matches, pc>>
         [] OTHER -> Abort /\ UNCHANGED <<outfile, matches>>
    /\ UNCHANGED <<columns, filter_obj, infile, worker_vars>>

\* the reader is exhausted: "Processing complete!"
Complete ==
    /\ pc = "loop"
    /\ reader = Len(infile)
    /\ pc' = "done"
    /\ UNCHANGED <<columns, row, filter_obj, result, infile, reader, outfile, matches, worker_vars>>

NextCsv == WriteHeader \/ SkipHeader \/ ProcessRow \/ Complete

SpecCsv == InitCsv /\ [][NextCsv]_vars

(***************************************************************************)
(* Concurrent workers: each worker takes the next row of the file and      *)
(* calls filter_row on it with the shared columns and filter_obj.  A call  *)
(* runs one evaluate_condition frame at a time, and the steps of the       *)
(* workers interleave.  A frame holds its condition, the place of the      *)
(* child it evaluates next, and the value the child returned.              *)
(***************************************************************************)
\* the rows the workers share out
WorkerRows ==
    { RowOf(CONFIG_COLUMNS, Cells(<<>>, <<"7">>, <<"M","G">>, <<"a","@","g">>)),
      RowOf(CONFIG_COLUMNS, Cells(<<>>, <<"7">>, <<"S","P">>, <<"a","@","b">>)),
      <<<<"0","2">>>> }

WorkerFiles ==
    {<<InputHeader>> \o rows : rows \in SeqsUpTo(WorkerRows, MaxRows)}

\* the predicate tree the workers share
SharedFilters ==
    { AND(<<eq("SITUACAO_CADASTRAL", <<"0","2">>),
            NOT(contains("CORREIO_ELETRONICO", <<"@","g">>))>>),
      OR(<<eq("UF", <<"M","G">>), eq("RAZAO_SOCIAL", <<"x">>)>>),
      NOT(OR(<<ne("UF", <<"M","G">>), AND(<<>>)>>)),
      eq("UF", <<"M","G">>),
      filter_example }

InitWorkers ==
    /\ columns = CONFIG_COLUMNS
    /\ filter_obj \in SharedFilters
    /\ infile \in WorkerFiles
    /\ reader = 1
    /\ frames = [w \in Workers |-> <<>>]
    /\ args = [w \in Workers |-> 0]
    /\ returned = [i \in DOMAIN infile |-> None]
    /\ row = <<>>
    /\ result = None
    /\ outfile = <<>>
    /\ matches = 0
    /\ pc = "workers"

\* a row kept in one module-level variable, which every call overwrites
global_row(w) == infile[reader]

\* the row of worker w's call: the argument its evaluate_condition closes over
closure_row(w) == infile[args[w]]

\* a new evaluate_condition(condition)
Frame(condition) == [condition |-> condition, next |-> 1, ret |-> None]

\* worker w calls filter_row on the next row of the file
CallFilterRow(w) ==
    /\ args[w] = 0
    /\ reader < Len(infile)
    /\ reader' = reader + 1
    /\ args' = [args EXCEPT ![w] = reader + 1]
    /\ frames' = [frames EXCEPT ![w] = <<Frame(filter_obj)>>]
    /\ UNCHANGED <<columns, row, filter_obj, result, infile, outfile, matches, pc,
                   returned>>

\* the innermost frame of w returns or raises v: to the frame that called it,
\* or out of filter_row
Return(w, v) ==
    LET n == Len(frames[w])
    IN  IF n = 1
        THEN /\ frames' = [frames EXCEPT ![w] = <<>>]
             /\ returned' = [returned EXCEPT ![args[w]] = v]
             /\ args' = [args EXCEPT ![w] = 0]
        ELSE /\ frames' = [frames EXCEPT ![w] =
                              [SubSeq(@, 1, n - 1) EXCEPT ![n - 1].ret = v]]
             /\ UNCHANGED <<returned, args>>

\* the innermost frame of w calls evaluate_condition on a child
Descend(w, child) ==
    /\ frames' = [frames EXCEPT ![w] = Append(@, Frame(child))]
    /\ UNCHANGED <<returned, args>>

\* the generator of all() or any() moves to the next child
Advance(w) ==
    /\ frames' = [frames EXCEPT ![w] =
                     [@ EXCEPT ![Len(@)] = [@ EXCEPT !.next = @ + 1, !.ret = None]]]
    /\ UNCHANGED <<returned, args>>

\* all() and any(): done at the end of the children, else the next child is
\* evaluated; on its value the loop goes on while it is `passes`, and
\* otherwise the value (or the exception) is the result
StepAllAny(w, top, passes, exhausted) ==
    LET conditions == Get(top.condition, "conditions", <<>>)
    IN  IF top.ret = None
        THEN IF top.next > Len(conditions)
             THEN Return(w, exhausted)
             ELSE Descend(w, conditions[top.next])
        ELSE IF top.ret = passes THEN Advance(w) ELSE Return(w, top.ret)

\* one evaluate_condition step of worker w's call
Step(w) ==
    /\ frames[w] # <<>>
    /\ LET top == frames[w][Len(frames[w])]
           op == Get(top.condition, "op", None)
       IN  IF op = None \/ op = "" THEN Return(w, "True")
           ELSE CASE op = "AND" -> StepAllAny(w, top, "True", "True")
                  [] op = "OR" -> StepAllAny(w, top, "False", "False")
                  [] op = "NOT" ->
                        IF top.ret = None
                        THEN Descend(w, Get(top.condition, "condition", <<>>))
                        ELSE Return(w, py_not(top.ret))
                  [] OTHER ->
                        Return(w, evaluate_condition(closure_row(w), columns,
                                                     top.condition))
    /\ UNCHANGED <<columns, row, filter_obj, result, infile, reader, outfile,
                   matches, pc>>

NextWorkers == \E w \in Workers : CallFilterRow(w) \/ Step(w)

SpecWorkers == InitWorkers /\ [][NextWorkers]_vars

(***************************************************************************)
(* Properties                                                              *)
(***************************************************************************)
Called == result # None

Verdicts == {"True", "False"}

Op(f) == Get(f, "op", None)

\* the child of a NOT node and the children of an AND or OR node, as
\* evaluate_condition reads them
Child(f) == Get(f, "condition", <<>>)

Children(f) == Get(f, "conditions", <<>>)

\* the outcomes of the children of an AND or OR node, each evaluated alone
ChildOutcomes(f) ==
    [i \in DOMAIN Children(f) |-> filter_row(row, columns, Children(f)[i])]

\* C1: filter_row on NOT(P) returns the negation of filter_row on P: true
\* where P is false, false where P is true, and where P raises NOT(P) raises
\* the same exception
C1_NotNegates ==
    (Called /\ Op(filter_obj) = "NOT") =>
        LET p == filter_row(row, columns, Child(filter_obj))
        IN  /\ p = "True" => result = "False"
            /\ p = "False" => result = "True"
            /\ p \in Errors => result = p

C1_Witness ==
    /\ Called
    /\ Op(filter_obj) = "NOT"
    /\ Op(Child(filter_obj)) = "OR"
    /\ Len(Children(Child(filter_obj))) = 2
    /\ result = "True"

\* C2: AND(children) is true iff every child is true and OR(children) is
\* true iff some child is true: some child that the left-to-right evaluation
\* reaches, and any child when every child yields a verdict; dually OR is
\* false iff every child is false and AND is false iff some child is false;
\* so AND() is true and OR() is false
C2_AndAllOrAny ==
    (Called /\ Op(filter_obj) \in {"AND", "OR"}) =>
        LET outs == ChildOutcomes(filter_obj)
            n == Len(Children(filter_obj))
            total == \A i \in 1..n : outs[i] \in Verdicts
            \* child i is evaluated and yields v: the ones before it yield skip
            Reached(i, v, skip) == outs[i] = v /\ \A j \in 1..(i - 1) : outs[j] = skip
        IN  /\ Op(filter_obj) = "AND" =>
                /\ (result = "True") <=> (\A i \in 1..n : outs[i] = "True")
                /\ (result = "False") <=> (\E i \in 1..n : Reached(i, "False", "True"))
                /\ total => ((result = "False") <=> (\E i \in 1..n : outs[i] = "False"))
                /\ n = 0 => result = "True"
            /\ Op(filter_obj) = "OR" =>
                /\ (result = "False") <=> (\A i \in 1..n : outs[i] = "False")
                /\ (result = "True") <=> (\E i \in 1..n : Reached(i, "True", "False"))
                /\ total => ((result = "True") <=> (\E i \in 1..n : outs[i] = "True"))
                /\ n = 0 => result = "False"

C2_Witness ==
    /\ Called
    /\ Op(filter_obj) = "OR"
    /\ Len(Children(filter_obj)) = 2
    /\ ChildOutcomes(filter_obj) = <<"False", "True">>
    /\ result = "True"

\* C3: De Morgan: filter_row on NOT(AND(A, B)) has the outcome of filter_row
\* on OR(NOT(A), NOT(B))
C3_DeMorgan ==
    (/\ Called
     /\ Op(filter_obj) = "NOT"
     /\ Op(Child(filter_obj)) = "AND"
     /\ Len(Children(Child(filter_obj))) = 2) =>
        LET A == Children(Child(filter_obj))[1]
            B == Children(Child(filter_obj))[2]
        IN  result = filter_row(row, columns, OR(<<NOT(A), NOT(B)>>))

C3_Witness ==
    /\ Called
    /\ Op(filter_obj) = "NOT"
    /\ Op(Child(filter_obj)) = "AND"
    /\ Len(Children(Child(filter_obj))) = 2
    /\ Op(Children(Child(filter_obj))[1]) = "eq"
    /\ Op(Children(Child(filter_obj))[2]) = "NOT"
    /\ filter_row(row, columns, Children(Child(filter_obj))[1]) = "True"
    /\ result = "True"

(***************************************************************************)
(* Letter case, stated without lower()                                     *)
(***************************************************************************)
SwapCase(c) ==
    IF \E i \in DOMAIN UPPER : UPPER[i] = c
    THEN LOWER[CHOOSE i \in DOMAIN UPPER : UPPER[i] = c]
    ELSE IF \E i \in DOMAIN LOWER : LOWER[i] = c
    THEN UPPER[CHOOSE i \in DOMAIN LOWER : LOWER[i] = c]
    ELSE c

\* the strings that differ from s in the case of some letters only
RECURSIVE CaseVariants(_)
CaseVariants(s) ==
    IF s = <<>> THEN {<<>>}
    ELSE {<<c>> \o t : c \in {Head(s), SwapCase(Head(s))}, t \in CaseVariants(Tail(s))}

SameIgnoringCase(s, t) ==
    /\ Len(s) = Len(t)
    /\ \A i \in 1..Len(s) : t[i] \in {s[i], SwapCase(s[i])}

SubstringIgnoringCase(sub, s) ==
    \E k \in 0..(Len(s) - Len(sub)) :
        SameIgnoringCase(SubSeq(s, k + 1, k + Len(sub)), sub)

\* the character at place i of pattern p follows a backslash that escapes it
RECURSIVE Escaped(_, _)
Escaped(p, i) == i > 1 /\ p[i - 1] = "\\" /\ ~Escaped(p, i - 1)

\* the case variants of a pattern that leave its escape sequences alone
PatternCaseVariants(p) ==
    {q \in CaseVariants(p) : \A i \in 1..Len(p) : Escaped(p, i) => q[i] = p[i]}

\* the call is one field condition with operator in ops, on a field the
\* columns have and a cell the row has
LeafOn(ops) ==
    /\ Op(filter_obj) \in ops
    /\ "field" \in DOMAIN filter_obj
    /\ Has(columns, filter_obj.field)
    /\ index(columns, filter_obj.field) <= Len(row)

TheCell == row[index(columns, filter_obj.field)]

\* the same call with the cell and the operand replaced
Recased(cell, value) ==
    filter_row([row EXCEPT ![index(columns, filter_obj.field)] = cell], columns,
               [filter_obj EXCEPT !.value = value])

\* on a single-value field eq is true iff the whole cell is the operand
\* ignoring case, ne is its negation, contains is true iff the operand is a
\* substring of the cell ignoring case
C4_SingleValue ==
    (Called /\ LeafOn({"eq", "ne", "contains"}) /\ filter_obj.field # MULTI_VALUE_FIELD) =>
        /\ result \in Verdicts
        /\ Op(filter_obj) = "eq" =>
              ((result = "True") <=> SameIgnoringCase(TheCell, filter_obj.value))
        /\ Op(filter_obj) = "ne" =>
              ((result = "True") <=> ~SameIgnoringCase(TheCell, filter_obj.value))
        /\ Op(filter_obj) = "contains" =>
              ((result = "True") <=> SubstringIgnoringCase(filter_obj.value, TheCell))

Trimmed(s) ==
    LET inked == {k \in 1..Len(s) : s[k] # " "}
    IN  IF inked = {} THEN <<>>
        ELSE SubSeq(s, CHOOSE k \in inked : \A m \in inked : k <= m,
                       CHOOSE k \in inked : \A m \in inked : k >= m)

\* the trimmed pieces of cell between its commas
Tokens(cell) ==
    {Trimmed(SubSeq(cell, i, j)) :
        <<i, j>> \in {<<a, b>> \in (1..(Len(cell) + 1)) \X (0..Len(cell)) :
                        /\ a <= b + 1
                        /\ a = 1 \/ cell[a - 1] = ","
                        /\ b = Len(cell) \/ cell[b + 1] = ","
                        /\ \A k \in a..b : cell[k] # ","}}

\* C5: on the multi-value field eq(field, X) is true iff some token of the
\* cell is X ignoring case, ne(field, X) is true iff no token is, and ne is
\* the negation of eq; on cell "A, B, C": eq B true, ne B false, ne D true
C5_MultiValue ==
    (Called /\ LeafOn({"eq", "ne"}) /\ filter_obj.field = MULTI_VALUE_FIELD) =>
        LET X == filter_obj.value
            some == \E t \in Tokens(TheCell) : SameIgnoringCase(t, X)
            other == IF Op(filter_obj) = "eq" THEN "ne" ELSE "eq"
            ABC == <<"A", ",", " ", "B", ",", " ", "C">>
        IN  /\ result \in Verdicts
            /\ Op(filter_obj) = "eq" => ((result = "True") <=> some)
            /\ Op(filter_obj) = "ne" => ((result = "True") <=> ~some)
            /\ filter_row(row, columns, [filter_obj EXCEPT !.op = other]) \in Verdicts \ {result}
            /\ (TheCell = ABC /\ X = <<"B">>) => result = PyBool(Op(filter_obj) = "eq")
            /\ (TheCell = ABC /\ X = <<"D">>) => result = PyBool(Op(filter_obj) = "ne")

C5_Witness ==
    /\ Called
    /\ LeafOn({"ne"})
    /\ filter_obj.field = MULTI_VALUE_FIELD
    /\ TheCell = <<"A", ",", " ", "B", ",", " ", "C">>
    /\ filter_obj.value = <<"b">>
    /\ result = "False"

(***************************************************************************)
(* Fields the columns do not have, operators no branch knows               *)
(***************************************************************************)
\* some field condition of tree f names a field that cols does not have
RECURSIVE NamesAbsentField(_, _)
NamesAbsentField(f, cols) ==
    \/ "field" \in DOMAIN f /\ ~Has(cols, f.field)
    \/ "conditions" \in DOMAIN f /\
          \E i \in DOMAIN f.conditions : NamesAbsentField(f.conditions[i], cols)
    \/ "condition" \in DOMAIN f /\ NamesAbsentField(f.condition, cols)

\* C6: a predicate with a field condition whose field the columns do not
\* have makes filter_row fail, whatever the row, the operator and the place
\* of the condition in the tree
C6_AbsentFieldRaises ==
    (Called /\ NamesAbsentField(filter_obj, columns)) => result \in Errors

KnownOperators ==
    {"AND", "OR", "NOT", "eq", "ne", "contains", "startswith", "endswith", "regex",
     "gt", "lt", "ge", "le", "date_eq", "date_ne", "date_gt", "date_lt", "date_ge",
     "date_le", "bool_eq", "bool_ne", "custom"}

\* C10: a node whose operator is not a known operator makes the evaluation
\* fail; it never yields a verdict
C10_UnknownOperatorRaises ==
    (Called /\ Op(filter_obj) \notin KnownOperators \cup {None, ""}) => result \in Errors

(***************************************************************************)
(* Typed comparisons                                                       *)
(***************************************************************************)
DigitSeq == <<"0","1","2","3","4","5","6","7","8","9">>

IsNumeric(cell) == cell # <<>> /\ \A i \in 1..Len(cell) : cell[i] \in Digits

RECURSIVE Number(_)
Number(cell) ==
    IF cell = <<>> THEN 0
    ELSE 10 * Number(SubSeq(cell, 1, Len(cell) - 1))
           + (CHOOSE n \in 0..9 : DigitSeq[n + 1] = cell[Len(cell)])

IsDate(cell) == Len(cell) = 8 /\ \A i \in 1..8 : cell[i] \in Digits

IsBoolean(cell) ==
    \E b \in {<<"1">>, <<"0">>, <<"t","r","u","e">>, <<"f","a","l","s","e">>} :
        SameIgnoringCase(cell, b)

Parses(op, cell) ==
    CASE op \in NumericOps -> IsNumeric(cell)
      [] op \in DateOps -> IsDate(cell)
      [] OTHER -> IsBoolean(cell)

\* C7: on a numeric cell gt, lt, ge and le are the numeric comparison of the
\* cell against the operand
C7_NumericComparison ==
    (Called /\ LeafOn(NumericOps) /\ IsNumeric(TheCell)) =>
        LET cell == Number(TheCell)
            v == filter_obj.value
        IN  result = PyBool(CASE Op(filter_obj) = "gt" -> cell > v
                              [] Op(filter_obj) = "lt" -> cell < v
                              [] Op(filter_obj) = "ge" -> cell >= v
                              [] OTHER -> cell <= v)

\* C8: a numeric, date or boolean condition on a cell that does not parse as
\* the type is false, and does not raise
C8_UnparseableIsFalse ==
    (/\ Called
     /\ LeafOn(NumericOps \cup DateOps \cup BoolOps)
     /\ ~Parses(Op(filter_obj), TheCell)) => result = "False"

C8_Witness ==
    /\ Called
    /\ LeafOn(DateOps)
    /\ TheCell = <<"1", "x", "7">>
    /\ result = "False"

\* C9: on a single-value field startswith(field, v) is true iff the cell
\* starts with v ignoring case, endswith(field, v) iff the cell ends with v
\* ignoring case
C9_StartsEndsWith ==
    (/\ Called
     /\ LeafOn({"startswith", "endswith"})
     /\ filter_obj.field # MULTI_VALUE_FIELD) =>
        LET v == filter_obj.value
            n == Len(v)
            m == Len(TheCell)
        IN  result = PyBool(/\ n <= m
                            /\ IF Op(filter_obj) = "startswith"
                               THEN SameIgnoringCase(SubSeq(TheCell, 1, n), v)
                               ELSE SameIgnoringCase(SubSeq(TheCell, m - n + 1, m), v))

\* the row with every missing trailing cell filled in as the empty string
Padded(r, cols) ==
    [i \in 1..Len(cols) |-> IF i <= Len(r) THEN r[i] ELSE <<>>]

\* C11: on a row with fewer cells than the column list filter_row gives the
\* verdict it gives on the row padded with empty cells, and does not raise on
\* a condition whose field is a missing trailing cell
C11_ShortRowPadded ==
    (Called /\ Len(row) < Len(columns)) =>
        /\ result = filter_row(Padded(row, columns), columns, filter_obj)
        /\ result # "IndexError"

\* the rearrangements of n places
Permutations(n) ==
    {p \in [1..n -> 1..n] : \A i, j \in 1..n : p[i] = p[j] => i = j}

\* the rearrangements of the places of a column list of each length
ColumnPermutations == [n \in 0..Len(CONFIG_COLUMNS) |-> Permutations(n)]

\* the exchanges of two places among n
Transpositions(n) ==
    {[k \in 1..n |-> IF k = i THEN j ELSE IF k = j THEN i ELSE k] :
        i \in 1..n, j \in 1..n}

ColumnTranspositions == [n \in 0..Len(CONFIG_COLUMNS) |-> Transpositions(n)]

\* the sequence s rearranged by p
Permuted(s, p) == [i \in DOMAIN s |-> s[p[i]]]

FirstChildren(f, i) == [f EXCEPT !.conditions = SubSeq(@, 1, i)]

\* C15: AND and OR evaluate their children from left to right and stop at the
\* first child that decides: a false child of AND reached through true ones
\* makes the result false, a true child of OR reached through false ones
\* makes it true, whatever the later children are, one that raises included;
\* the outcome is that of the node without its later children
C15_ShortCircuit ==
    (Called /\ Op(filter_obj) \in {"AND", "OR"}) =>
        LET outs == ChildOutcomes(filter_obj)
            decides == IF Op(filter_obj) = "AND" THEN "False" ELSE "True"
            passes == IF Op(filter_obj) = "AND" THEN "True" ELSE "False"
        IN  \A i \in DOMAIN outs :
                (outs[i] = decides /\ \A j \in 1..(i - 1) : outs[j] = passes) =>
                    /\ result = decides
                    /\ result = filter_row(row, columns, FirstChildren(filter_obj, i))

C15_Witness ==
    /\ Called
    /\ Op(filter_obj) = "AND"
    /\ Len(Children(filter_obj)) = 2
    /\ ChildOutcomes(filter_obj) = <<"False", "ValueError">>
    /\ result = "False"

\* the tree with every incomplete node written out: a node without operator
\* as the empty AND, a NOT without child as the negation of the empty AND, an
\* AND or OR without children as the empty AND or OR
RECURSIVE Completed(_)
Completed(f) ==
    CASE Op(f) \in {None, ""} -> AND(<<>>)
      [] Op(f) = "NOT" ->
            NOT(IF "condition" \in DOMAIN f THEN Completed(f.condition) ELSE AND(<<>>))
      [] Op(f) \in {"AND", "OR"} ->
            [op |-> Op(f),
             conditions |-> [i \in DOMAIN Children(f) |-> Completed(Children(f)[i])]]
      [] OTHER -> f

\* no node of the tree lacks its operator, child or children
RECURSIVE IsComplete(_)
IsComplete(f) ==
    CASE Op(f) \in {None, ""} -> FALSE
      [] Op(f) = "NOT" -> "condition" \in DOMAIN f /\ IsComplete(f.condition)
      [] Op(f) \in {"AND", "OR"} ->
            /\ "conditions" \in DOMAIN f
            /\ \A i \in DOMAIN f.conditions : IsComplete(f.conditions[i])
      [] OTHER -> TRUE

\* C17: a node without operator (no 'op' key, or an empty one) is true on
\* every row and column list, and no field of it is looked up; a NOT without
\* 'condition' is false; an AND without 'conditions' is true and an OR
\* without 'conditions' is false, as the empty AND and OR; and so inside a
\* tree: the outcome is that of the tree with these nodes written out
C17_MissingKeys ==
    Called =>
        /\ Op(filter_obj) \in {None, ""} => result = "True"
        /\ (Op(filter_obj) = "NOT" /\ "condition" \notin DOMAIN filter_obj) =>
                result = "False"
        /\ (Op(filter_obj) = "AND" /\ "conditions" \notin DOMAIN filter_obj) =>
                result = "True" /\ result = filter_row(row, columns, AND(<<>>))
        /\ (Op(filter_obj) = "OR" /\ "conditions" \notin DOMAIN filter_obj) =>
                result = "False" /\ result = filter_row(row, columns, OR(<<>>))
        /\ result = filter_row(row, columns, Completed(filter_obj))

C17_Witness ==
    /\ Called
    /\ ~IsComplete(filter_obj)
    /\ Op(filter_obj) = "AND"
    /\ Children(filter_obj) = <<[field |-> "RAZAO_SOCIAL", value |-> <<"x">>], [op |-> "NOT"]>>
    /\ columns = CONFIG_COLUMNS
    /\ result = "False"

(***************************************************************************)
(* Properties of process_csv                                               *)
(***************************************************************************)
\* some node of the tree has an operator that is not a known operator
RECURSIVE NamesUnknownOperator(_)
NamesUnknownOperator(f) ==
    \/ Op(f) \notin KnownOperators \cup {None, ""}
    \/ \E i \in DOMAIN Children(f) : NamesUnknownOperator(Children(f)[i])
    \/ "condition" \in DOMAIN f /\ NamesUnknownOperator(f.condition)

\* the filter has an unknown operator, a node without its keys, or a field
\* the column list does not have
ConfigurationError(f, cols) ==
    \/ NamesUnknownOperator(f)
    \/ ~IsComplete(f)
    \/ NamesAbsentField(f, cols)

\* C13: with a configuration error in the filter the run of process_csv
\* aborts before any data row is processed: no data row gets a verdict, none
\* is written to the output, and the run does not complete
C13_ConfigurationErrorAbortsFirst ==
    ConfigurationError(filter_obj, columns) =>
        /\ result \notin Verdicts
        /\ Len(outfile) <= 1
        /\ pc # "done"

\* the rows that filter_row accepts, in their order
Accepted(rows) ==
    LET accepts(r) == filter_row(r, columns, filter_obj) = "True"
    IN  SelectSeq(rows, accepts)

SameAsAlone ==
    \A i \in DOMAIN returned :
        returned[i] # None => returned[i] = filter_row(infile[i], columns, filter_obj)

\* outside a call a worker holds no frame
NoStateBetweenCalls == \A w \in Workers : args[w] = 0 => frames[w] = <<>>

\* a step leaves the predicate tree, the column list and the rows as they are
ArgumentsUnchanged ==
    /\ filter_obj' = filter_obj
    /\ columns' = columns
    /\ infile' = infile

\* C16: filter_row is pure: the calls of concurrent workers on the rows of a
\* file, sharing one predicate tree and interleaved step by step in any
\* order, each return what the same call returns alone; no step modifies the
\* tree, the column list or a row, and nothing of a call stays once it has
\* returned
C16_PureUnderInterleaving ==
    /\ [](SameAsAlone /\ NoStateBetweenCalls)
    /\ [][ArgumentsUnchanged]_vars

C16_Witness ==
    /\ \A w \in Workers : args[w] # 0
    /\ infile[args[1]] # infile[args[2]]
    /\ Len(frames[1]) = 2
    /\ frames[2][1].ret # None
    /\ \E i \in DOMAIN returned : returned[i] \in Verdicts

====
